---- MODULE Spec2Model ----
(***************************************************************************)
(* The Copilot Chat provider (crates/language_models/src/provider/         *)
(* copilot_chat.rs): the stream normalizer,                                *)
(* map_to_language_model_completion_events, and the request adapter,       *)
(* into_copilot_chat, as stream_completion calls it.                       *)
(*                                                                         *)
(* The normalizer is futures::stream::unfold over                          *)
(* State {events, tool_calls_by_index}, flattened by flat_map(iter): each  *)
(* item of the vendor source is mapped to a Vec of results, and the Vecs   *)
(* are handed to the consumer one element per poll.                        *)
(*                                                                         *)
(* Option<T> is a sequence of length 0 (None) or 1 (Some).  A String that  *)
(* is concatenated (the argument buffer) is a sequence of tokens; a String *)
(* that is only stored or compared is a TLA+ string.                       *)
(***************************************************************************)
EXTENDS Integers, Sequences, FiniteSets, TLC

VARIABLES
    is_streaming,         \* the is_streaming parameter
    tool_calls_by_index,  \* State.tool_calls_by_index: index -> RawToolCall
    consumed,             \* the items state.events has yielded so far
    source_ended,         \* state.events has yielded None
    pending,              \* the rest of the Vec flat_map is iterating
    output,               \* the items delivered to the consumer, in order
    demand,               \* the consumer is inside poll_next
    ended,                \* the output stream has returned None
    prev_calls,           \* tool_calls_by_index before the last item was mapped
    batch,                \* the Vec the closure returned for the last item
    request,              \* stream_completion's request, with self.model
    pc,                   \* where the stream_completion call stands
    copilot_request,      \* what into_copilot_chat returned, once it has
    returned,             \* the error stream_completion returned, if any
    dispatched,           \* what CopilotChat::stream_completion was given
    instances             \* two normalizers at once: the State of each call

normalizer_vars ==
    <<is_streaming, tool_calls_by_index, consumed, source_ended, pending,
      output, demand, ended, prev_calls, batch>>

adapter_vars == <<request, pc, copilot_request, returned, dispatched>>

vars == <<normalizer_vars, adapter_vars, instances>>

\* ------------------------------------------------------------------ bounds

\* Items the vendor source yields in one run.
MaxEvents == 3

\* ----------------------------------------------------------------- options

None == <<>>

Some(x) == <<x>>

IsSome(o) == o # <<>>

\* ------------------------------------------------------------- JSON (serde)

\* Argument text is made of four tokens: the braces "{" and "}", the comma
\* "," and a member "m", standing for the text "x":1 .

JsonObject(members) == [kind |-> "object", members |-> members]

\* Whether a token string is an object: braces around members that commas
\* separate.
IsObjectText(text) ==
    /\ Len(text) >= 2
    /\ text[1] = "{"
    /\ text[Len(text)] = "}"
    /\ Len(text) = 2 \/ Len(text) % 2 = 1
    /\ \A k \in 2..(Len(text) - 1) :
          text[k] = (IF k % 2 = 0 THEN "m" ELSE ",")

\* serde_json::Value::from_str on a token string: the object it spells, or a
\* parse error (the empty text is one: EOF while parsing a value).
FromStr(text) ==
    IF IsObjectText(text)
    THEN [ok |-> TRUE,
          value |-> JsonObject(SelectSeq(text, LAMBDA t : t = "m")),
          error |-> ""]
    ELSE [ok |-> FALSE, value |-> JsonObject(<<>>),
          error |-> IF text = <<>> \/ Head(text) = "{"
                    THEN "EOF or syntax error in object"
                    ELSE "expected value"]

\* ---------------------------------------------------------- completion events

Text(content) == [type |-> "Text", text |-> content]

Stop(reason) == [type |-> "Stop", reason |-> reason]

ToolUse(id, name, input, raw_input) ==
    [type |-> "ToolUse", id |-> id, name |-> name, is_input_complete |-> TRUE,
     input |-> input, raw_input |-> raw_input]

BadInputJson(id, tool_name, raw_input, json_parse_error) ==
    [type |-> "Error", kind |-> "BadInputJson", id |-> id,
     tool_name |-> tool_name, raw_input |-> raw_input,
     json_parse_error |-> json_parse_error]

\* anyhow!(..).into(): an error that carries only its message.
OtherError(message) == [type |-> "Error", kind |-> "Other", message |-> message]

\* ------------------------------------------------------------ the accumulator

\* #[derive(Default)] struct RawToolCall
RawToolCall == [id |-> "", name |-> "", arguments |-> <<>>]

\* entry.id = tool_id
SetId(entry, tool_id) == [entry EXCEPT !.id = tool_id]

\* entry.name = name
SetName(entry, name) == [entry EXCEPT !.name = name]

\* A push_str that overwrites: the buffer keeps the last fragment only.
PushStrOverwrites(entry, arguments) == [entry EXCEPT !.arguments = arguments]

\* entry.arguments.push_str(&arguments)
PushStr(entry, arguments) ==
    [entry EXCEPT !.arguments = entry.arguments \o arguments]

\* tool_calls_by_index.entry(index).or_default()
EntryOrDefault(calls, index) ==
    IF index \in DOMAIN calls THEN calls[index] ELSE RawToolCall

\* One pass of the loop over delta.tool_calls.
ApplyToolCall(calls, tool_call) ==
    LET entry0 == EntryOrDefault(calls, tool_call.index)
        entry1 == IF IsSome(tool_call.id)
                  THEN SetId(entry0, tool_call.id[1])
                  ELSE entry0
        entry2 == IF IsSome(tool_call.function)
                     /\ IsSome(tool_call.function[1].name)
                  THEN SetName(entry1, tool_call.function[1].name[1])
                  ELSE entry1
        entry3 == IF IsSome(tool_call.function)
                     /\ IsSome(tool_call.function[1].arguments)
                  THEN PushStr(entry2, tool_call.function[1].arguments[1])
                  ELSE entry2
    IN  [i \in DOMAIN calls \cup {tool_call.index} |->
            IF i = tool_call.index THEN entry3 ELSE calls[i]]

RECURSIVE Accumulate(_, _)
\* for tool_call in &delta.tool_calls { .. }
Accumulate(calls, tool_calls) ==
    IF tool_calls = <<>>
    THEN calls
    ELSE Accumulate(ApplyToolCall(calls, Head(tool_calls)), Tail(tool_calls))

\* ----------------------------------------------------------------- the drain

\* A parse without the empty-string case.
ParseArgumentsAlways(arguments) == FromStr(arguments)

\* The model can output an empty string to indicate the absence of
\* arguments: an empty object then, the parse otherwise.
ParseArguments(arguments) ==
    IF arguments = <<>>
    THEN [ok |-> TRUE, value |-> JsonObject(<<>>), error |-> ""]
    ELSE FromStr(arguments)

\* A drain that swallows a parse error: an empty input instead of the error.
DrainToolCallSwallows(tool_call) ==
    LET arguments == ParseArguments(tool_call.arguments)
    IN  ToolUse(tool_call.id, tool_call.name, arguments.value,
                tool_call.arguments)

\* The closure mapped over tool_calls_by_index.drain().
DrainToolCall(tool_call) ==
    LET arguments == ParseArguments(tool_call.arguments)
    IN  IF arguments.ok
        THEN ToolUse(tool_call.id, tool_call.name, arguments.value,
                     tool_call.arguments)
        ELSE BadInputJson(tool_call.id, tool_call.name, tool_call.arguments,
                          arguments.error)

\* The orders HashMap::drain may visit the keys in: every one of them.
DrainOrders(calls) ==
    {order \in [1..Cardinality(DOMAIN calls) -> DOMAIN calls] :
        \A i, j \in DOMAIN order : i # j => order[i] # order[j]}

DrainAll(calls, order) ==
    [k \in 1..Len(order) |-> DrainToolCall(calls[order[k]])]

NoCalls == [i \in {} |-> RawToolCall]

\* The arms of match choice.finish_reason.as_deref(): the events pushed and
\* the map left.

\* A "stop" that discards the buffered calls.
OnStopDiscards(calls, order) ==
    [events |-> <<Stop("EndTurn")>>, calls |-> NoCalls]

\* A "stop" that flushes the buffered calls.
OnStopDrains(calls, order) ==
    [events |-> DrainAll(calls, order) \o <<Stop("EndTurn")>>,
     calls |-> NoCalls]

\* Some("stop")
OnStop(calls, order) ==
    [events |-> <<Stop("EndTurn")>>, calls |-> calls]

\* A drain that iterates the map without emptying it.
OnToolCallsKeeps(calls, order) ==
    [events |-> DrainAll(calls, order) \o <<Stop("ToolUse")>>,
     calls |-> calls]

\* Some("tool_calls")
OnToolCalls(calls, order) ==
    [events |-> DrainAll(calls, order) \o <<Stop("ToolUse")>>,
     calls |-> NoCalls]

\* An unexpected reason handled as "tool_calls".
OnOtherReasonDrains(calls, order) ==
    [events |-> DrainAll(calls, order) \o <<Stop("ToolUse")>>,
     calls |-> NoCalls]

\* Some(stop_reason): logged as unexpected
OnOtherReason(calls, order) ==
    [events |-> <<Stop("EndTurn")>>, calls |-> calls]

\* None
OnNoReason(calls, order) ==
    [events |-> <<>>, calls |-> calls]

OnFinishReason(finish_reason, calls, order) ==
    IF finish_reason = Some("stop") THEN OnStop(calls, order)
    ELSE IF finish_reason = Some("tool_calls") THEN OnToolCalls(calls, order)
    ELSE IF IsSome(finish_reason) THEN OnOtherReason(calls, order)
    ELSE OnNoReason(calls, order)

\* --------------------------------------------------------- one source item

\* The delta field is read whatever the mode.
SelectDeltaIgnoresMode(choice, streaming) == choice.delta

\* if is_streaming { choice.delta } else { choice.message }
SelectDelta(choice, streaming) ==
    IF streaming THEN choice.delta ELSE choice.message

\* Text held back while the delta carries tool-call fragments.
TextEventsUnlessToolCalls(delta) ==
    IF IsSome(delta.content) /\ delta.tool_calls = <<>>
    THEN <<Text(delta.content[1])>>
    ELSE <<>>

\* if let Some(content) = delta.content.clone() { events.push(Text(content)) }
TextEvents(delta) ==
    IF IsSome(delta.content) THEN <<Text(delta.content[1])>> ELSE <<>>

\* The outputs of the finish reason come before the Text.
MapDeltaStopFirst(choice, delta, calls, order) ==
    LET accumulated == Accumulate(calls, delta.tool_calls)
        finish == OnFinishReason(choice.finish_reason, accumulated, order)
    IN  [events |-> finish.events \o TextEvents(delta), calls |-> finish.calls]

\* The finish reason is handled before the fragments of the event are
\* accumulated: a drain misses them and they stay in the map.
MapDeltaDrainsFirst(choice, delta, calls, order) ==
    LET before == SelectSeq(order, LAMBDA i : i \in DOMAIN calls)
        finish == OnFinishReason(choice.finish_reason, calls, before)
    IN  [events |-> TextEvents(delta) \o finish.events,
         calls |-> Accumulate(finish.calls, delta.tool_calls)]

\* The body of the unfold closure for Some(Ok(event)), past the two early
\* returns: the Vec returned and the map left.
MapDelta(choice, delta, calls, order) ==
    LET accumulated == Accumulate(calls, delta.tool_calls)
        finish == OnFinishReason(choice.finish_reason, accumulated, order)
    IN  [events |-> TextEvents(delta) \o finish.events, calls |-> finish.calls]

\* The map a drain caused by `polled` iterates: the one its fragments leave.
CallsAtDrain(polled, calls, streaming) ==
    IF polled # None /\ polled[1].ok /\ polled[1].choices # <<>>
       /\ IsSome(SelectDelta(polled[1].choices[1], streaming))
    THEN Accumulate(calls,
                    SelectDelta(polled[1].choices[1], streaming)[1].tool_calls)
    ELSE calls

\* A transport failure that ends the stream without an output.
OnTransportErrorEnds(item, calls) == None

\* Err(err) => return Some((vec![Err(anyhow!(err).into())], state))
OnTransportError(item, calls) ==
    Some([events |-> <<OtherError(item.error)>>, calls |-> calls])

\* An event with no choice empties the map.
OnNoChoiceClears(item, calls) ==
    Some([events |-> <<OtherError("Response contained no choices")>>,
          calls |-> NoCalls])

\* let Some(choice) = event.choices.first() else { return Some((vec![Err], state)) }
OnNoChoice(item, calls) ==
    Some([events |-> <<OtherError("Response contained no choices")>>,
          calls |-> calls])

\* A missing delta that ends the stream without an output.
OnNoDeltaEnds(item, calls) == None

\* let Some(delta) = delta else { return Some((vec![Err], state)) }
OnNoDelta(item, calls) ==
    Some([events |-> <<OtherError("Response contained no delta")>>,
          calls |-> calls])

\* A closure that ends the stream at the item that says "stop".
UnfoldEndsAtStop(polled, calls, order, streaming) ==
    IF polled = None THEN None
    ELSE IF ~polled[1].ok THEN OnTransportError(polled[1], calls)
    ELSE IF polled[1].choices = <<>> THEN OnNoChoice(polled[1], calls)
    ELSE IF polled[1].choices[1].finish_reason = Some("stop") THEN None
    ELSE IF ~IsSome(SelectDelta(polled[1].choices[1], streaming))
    THEN OnNoDelta(polled[1], calls)
    ELSE Some(MapDelta(polled[1].choices[1],
                       SelectDelta(polled[1].choices[1], streaming)[1],
                       calls, order))

\* The unfold closure once state.events.next() has yielded `polled`: None
\* (the stream ends) or Some of the Vec to flatten and the map left.
Unfold(polled, calls, order, streaming) ==
    IF polled = None THEN None
    ELSE IF ~polled[1].ok THEN OnTransportError(polled[1], calls)
    ELSE IF polled[1].choices = <<>> THEN OnNoChoice(polled[1], calls)
    ELSE IF ~IsSome(SelectDelta(polled[1].choices[1], streaming))
    THEN OnNoDelta(polled[1], calls)
    ELSE Some(MapDelta(polled[1].choices[1],
                       SelectDelta(polled[1].choices[1], streaming)[1],
                       calls, order))

\* ------------------------------------------------------------ vendor items

ToolCallChunk(index, id, function) ==
    [index |-> index, id |-> id, function |-> function]

FunctionChunk(name, arguments) == [name |-> name, arguments |-> arguments]

ResponseDelta(content, tool_calls) ==
    [content |-> content, tool_calls |-> tool_calls]

ResponseChoice(delta, message, finish_reason) ==
    [delta |-> delta, message |-> message, finish_reason |-> finish_reason]

OkEvent(choices) == [ok |-> TRUE, choices |-> choices, error |-> ""]

ErrItem(error) == [ok |-> FALSE, choices |-> <<>>, error |-> error]

\* The first choice of a well-formed event: the delta in the field the mode
\* reads, `other` in the field it does not read.
Placed(delta, other, finish_reason, streaming) ==
    IF streaming
    THEN ResponseChoice(Some(delta), other, finish_reason)
    ELSE ResponseChoice(other, Some(delta), finish_reason)

\* A first choice whose field the mode reads is absent.
Missing(other, finish_reason, streaming) ==
    IF streaming
    THEN ResponseChoice(None, other, finish_reason)
    ELSE ResponseChoice(other, None, finish_reason)

\* Fragments: an opening one (id, name, first argument text), a closing one
\* (argument text only), one that names a call anew and carries no argument
\* text, one whose argument text is empty, one that carries a member, a
\* complete call.
OpenCall(index) ==
    ToolCallChunk(index, Some("a"), Some(FunctionChunk(Some("f"), Some(<<"{">>))))

CloseCall(index) ==
    ToolCallChunk(index, None, Some(FunctionChunk(None, Some(<<"}">>))))

BareCall(index) ==
    ToolCallChunk(index, Some("b"), Some(FunctionChunk(Some("g"), None)))

EmptyCall(index) ==
    ToolCallChunk(index, None, Some(FunctionChunk(None, Some(<<>>))))

MemberCall(index) ==
    ToolCallChunk(index, None, Some(FunctionChunk(None, Some(<<"m">>))))

FullCall(index) ==
    ToolCallChunk(index, Some("a"),
                  Some(FunctionChunk(Some("f"), Some(<<"{", "m", "}">>))))

\* Items that are not well-formed events: a transport failure, an event with
\* no choice, events whose first choice lacks the field the mode reads (one
\* of them with a delta in the other field).
BrokenItems(streaming) ==
    {ErrItem("transport"),
     OkEvent(<<>>),
     OkEvent(<<Missing(None, None, streaming)>>),
     OkEvent(<<Missing(Some(ResponseDelta(Some("h"), <<OpenCall(0)>>)),
                       Some("tool_calls"), streaming)>>)}

\* Streaming: each event is a delta, fragments arrive one per event.
StreamChoices ==
    {Placed(ResponseDelta(None, <<>>), None, fr, TRUE) :
        fr \in {None, Some("stop"), Some("tool_calls"), Some("length")}}
    \cup {Placed(ResponseDelta(Some("h"), <<>>), None, fr, TRUE) :
        fr \in {None, Some("stop"), Some("tool_calls")}}
    \cup {Placed(ResponseDelta(Some(""), <<>>), None, None, TRUE)}
    \cup {Placed(ResponseDelta(Some("w"), <<OpenCall(0)>>), None, fr, TRUE) :
        fr \in {None, Some("stop"), Some("tool_calls")}}
    \cup {Placed(ResponseDelta(None, <<tc>>), None, fr, TRUE) :
        tc \in {CloseCall(0), BareCall(1)},
        fr \in {None, Some("tool_calls")}}
    \cup {Placed(ResponseDelta(None, <<tc>>), None, None, TRUE) :
        tc \in {BareCall(0), EmptyCall(1), MemberCall(0)}}

\* Not streaming: each event is a whole message.
MessageChoices ==
    {Placed(ResponseDelta(Some("h"), <<>>), None, Some("stop"), FALSE),
     Placed(ResponseDelta(Some("w"), <<>>),
            Some(ResponseDelta(Some("h"), <<>>)), None, FALSE),
     Placed(ResponseDelta(None, <<FullCall(0), BareCall(1)>>), None,
            Some("tool_calls"), FALSE),
     Placed(ResponseDelta(Some("w"), <<OpenCall(1), BareCall(1)>>), None,
            Some("length"), FALSE),
     Placed(ResponseDelta(None, <<OpenCall(0), CloseCall(0)>>), None,
            None, FALSE),
     Placed(ResponseDelta(None, <<>>), None, Some("tool_calls"), FALSE)}

\* What the vendor source may yield next.
Items(streaming) ==
    BrokenItems(streaming)
    \cup {OkEvent(<<c>>) :
            c \in IF streaming THEN StreamChoices ELSE MessageChoices}

\* ------------------------------------------------------------- the stream

\* No stream_completion call is under way.
NoCall ==
    /\ request = None
    /\ pc = "idle"
    /\ copilot_request = None
    /\ returned = None
    /\ dispatched = None

Init ==
    /\ is_streaming \in BOOLEAN
    /\ tool_calls_by_index = NoCalls
    /\ consumed = <<>>
    /\ source_ended = FALSE
    /\ pending = <<>>
    /\ output = <<>>
    /\ demand = FALSE
    /\ ended = FALSE
    /\ prev_calls = NoCalls
    /\ batch = <<>>
    /\ NoCall
    /\ instances = <<>>

\* The consumer calls poll_next on the flattened stream.
Pull ==
    /\ ~demand
    /\ ~ended
    /\ demand' = TRUE
    /\ UNCHANGED <<is_streaming, tool_calls_by_index, consumed, source_ended,
                   pending, output, ended, prev_calls, batch>>
    /\ UNCHANGED <<adapter_vars, instances>>

\* flat_map hands the consumer the next element of the Vec it is iterating.
Deliver ==
    /\ demand
    /\ pending # <<>>
    /\ output' = Append(output, Head(pending))
    /\ pending' = Tail(pending)
    /\ demand' = FALSE
    /\ UNCHANGED <<is_streaming, tool_calls_by_index, consumed, source_ended,
                   ended, prev_calls, batch>>
    /\ UNCHANGED <<adapter_vars, instances>>

\* The source is polled as soon as the Vec is exhausted, asked or not.
PollUnasked(polled) ==
    /\ pending = <<>>
    /\ ~ended
    /\ \E order \in DrainOrders(CallsAtDrain(polled, tool_calls_by_index,
                                             is_streaming)) :
         LET step == Unfold(polled, tool_calls_by_index, order, is_streaming)
         IN  IF step = None
             THEN /\ ended' = TRUE
                  /\ demand' = FALSE
                  /\ UNCHANGED <<tool_calls_by_index, pending, batch,
                                 prev_calls>>
             ELSE /\ pending' = step[1].events
                  /\ batch' = step[1].events
                  /\ tool_calls_by_index' = step[1].calls
                  /\ prev_calls' = tool_calls_by_index
                  /\ UNCHANGED <<ended, demand>>
    /\ UNCHANGED <<is_streaming, output>>
    /\ UNCHANGED <<adapter_vars, instances>>

\* The Vec is exhausted and flat_map polls unfold, whose closure awaits
\* state.events.next(); it yields `polled`.  A closure that returns None ends
\* the stream; Some((events, state)) is the next Vec to flatten.
Poll(polled) ==
    /\ demand
    /\ pending = <<>>
    /\ ~ended
    /\ \E order \in DrainOrders(CallsAtDrain(polled, tool_calls_by_index,
                                             is_streaming)) :
         LET step == Unfold(polled, tool_calls_by_index, order, is_streaming)
         IN  IF step = None
             THEN /\ ended' = TRUE
                  /\ demand' = FALSE
                  /\ UNCHANGED <<tool_calls_by_index, pending, batch,
                                 prev_calls>>
             ELSE /\ pending' = step[1].events
                  /\ batch' = step[1].events
                  /\ tool_calls_by_index' = step[1].calls
                  /\ prev_calls' = tool_calls_by_index
                  /\ UNCHANGED <<ended, demand>>
    /\ UNCHANGED <<is_streaming, output>>
    /\ UNCHANGED <<adapter_vars, instances>>

\* state.events.next() yields Some(item).
PollItem(item) ==
    /\ ~source_ended
    /\ Len(consumed) < MaxEvents
    /\ Poll(Some(item))
    /\ consumed' = Append(consumed, item)
    /\ UNCHANGED source_ended

\* state.events.next() yields None.
SourceEnd ==
    /\ ~source_ended
    /\ Poll(None)
    /\ source_ended' = TRUE
    /\ UNCHANGED consumed

Next ==
    \/ Pull
    \/ Deliver
    \/ \E item \in Items(is_streaming) : PollItem(item)
    \/ SourceEnd

Spec == Init /\ [][Next]_vars

\* ------------------------------------------------- the history, read back

\* What follows states the properties over the run so far: the items
\* consumed, the outputs delivered and pending, the map.

Mapped == consumed # <<>>

Last == consumed[Len(consumed)]

\* The field of the first choice the mode reads.
FieldRead(item) ==
    IF is_streaming THEN item.choices[1].delta ELSE item.choices[1].message

WellFormed(item) ==
    item.ok /\ item.choices # <<>> /\ FieldRead(item) # None

FinishReason(item) == item.choices[1].finish_reason

FragmentsOf(item) ==
    IF WellFormed(item) THEN FieldRead(item)[1].tool_calls ELSE <<>>

IsDrain(item) == WellFormed(item) /\ FinishReason(item) = <<"tool_calls">>

\* The last drain among the first n items (0: none).
LastDrain(n) ==
    LET drains == {k \in 1..n : IsDrain(consumed[k])}
    IN  IF drains = {} THEN 0 ELSE CHOOSE k \in drains : \A j \in drains : j <= k

RECURSIVE FragmentsBetween(_, _)
\* The fragments of items from + 1 .. to, in arrival order.
FragmentsBetween(from, to) ==
    IF to <= from
    THEN <<>>
    ELSE FragmentsBetween(from, to - 1) \o FragmentsOf(consumed[to])

\* The fragments the drain of item n covers, or that the map holds after a
\* last item n that does not drain: those since the drain before it.
FragmentsSinceDrain(n) == FragmentsBetween(LastDrain(n - 1), n)

AtIndex(fragments, index) ==
    SelectSeq(fragments, LAMBDA f : f.index = index)

IndicesOf(fragments) == {fragments[k].index : k \in DOMAIN fragments}

LastIdOf(fragments) ==
    LET carrying == SelectSeq(fragments, LAMBDA f : f.id # <<>>)
    IN  IF carrying = <<>> THEN "" ELSE carrying[Len(carrying)].id[1]

LastNameOf(fragments) ==
    LET carrying == SelectSeq(fragments,
                        LAMBDA f : f.function # <<>> /\ f.function[1].name # <<>>)
    IN  IF carrying = <<>> THEN ""
        ELSE carrying[Len(carrying)].function[1].name[1]

RECURSIVE ArgumentTextOf(_)
\* Every argument fragment, concatenated in arrival order.
ArgumentTextOf(fragments) ==
    IF fragments = <<>>
    THEN <<>>
    ELSE LET f == fragments[Len(fragments)]
             rest == ArgumentTextOf(SubSeq(fragments, 1, Len(fragments) - 1))
         IN  IF f.function # <<>> /\ f.function[1].arguments # <<>>
             THEN rest \o f.function[1].arguments[1]
             ELSE rest

\* The entry the fragments of one index add up to.
Reassembled(fragments) ==
    [id |-> LastIdOf(fragments), name |-> LastNameOf(fragments),
     arguments |-> ArgumentTextOf(fragments)]

\* The whole map some fragments add up to.
ReassembledCalls(fragments) ==
    [i \in IndicesOf(fragments) |-> Reassembled(AtIndex(fragments, i))]

\* An output that reports a tool call: a ToolUse, or the error that stands
\* in for it.
IsToolOutput(e) ==
    e.type = "ToolUse" \/ (e.type = "Error" /\ e.kind = "BadInputJson")

ToolOutputName(e) == IF e.type = "ToolUse" THEN e.name ELSE e.tool_name

\* An output reports the entry: same id, name and buffer text.
Reports(e, entry) ==
    /\ IsToolOutput(e)
    /\ e.id = entry.id
    /\ ToolOutputName(e) = entry.name
    /\ e.raw_input = entry.arguments

\* ---------------------------------------------------------------- claims

\* C1: at every point the map holds, per index, the id of the last fragment
\* that carried one, the name of the last fragment that carried one and the
\* concatenation in arrival order of every argument fragment received there
\* since the entry was created; when an item drains the map, each entry is
\* reported by an output carrying that buffer unchanged as raw_input.
C1_Reassembly ==
    Mapped =>
        LET expected == ReassembledCalls(FragmentsSinceDrain(Len(consumed)))
        IN  IF IsDrain(Last)
            THEN \A i \in DOMAIN expected :
                    \E k \in DOMAIN batch : Reports(batch[k], expected[i])
            ELSE tool_calls_by_index = expected

\* C1 witness: a drain reports a call whose id and name were replaced by a
\* later fragment and whose buffer arrived in two events.
C1_Witness ==
    /\ Mapped
    /\ IsDrain(Last)
    /\ \E k \in DOMAIN batch :
         /\ batch[k].type = "ToolUse"
         /\ batch[k].id = "b"
         /\ batch[k].name = "g"
         /\ batch[k].raw_input = <<"{", "}">>

\* The entries the map holds once the fragments of the last item are in (the
\* entries a drain by it iterates), read from the history.
EntriesAccumulated == ReassembledCalls(FragmentsSinceDrain(Len(consumed)))

IsText(e) == e.type = "Text"

IsStop(e) == e.type = "Stop"

IsBadInputJson(e) == e.type = "Error" /\ e.kind = "BadInputJson"

\* The one-to-one maps of a set of positions onto a set of indices.
OneToOne(positions, indices) ==
    {f \in [positions -> indices] :
        /\ \A p, q \in positions : p # q => f[p] # f[q]
        /\ \A i \in indices : \E p \in positions : f[p] = i}

C5_StopIsEndTurn ==
    (Mapped /\ WellFormed(Last) /\ FinishReason(Last) = <<"stop">>) =>
        /\ SelectSeq(batch, IsStop) = <<Stop("EndTurn")>>
        /\ \A k \in DOMAIN batch : ~IsToolOutput(batch[k])

\* C5 witness: a "stop" while the map holds an unfinished call.
C5_Witness ==
    /\ Mapped
    /\ WellFormed(Last)
    /\ FinishReason(Last) = <<"stop">>
    /\ \E i \in DOMAIN prev_calls : ~IsObjectText(prev_calls[i].arguments)
    /\ pending = <<>>

\* C6: at a drain, an entry whose buffer is non-empty and is not JSON is
\* reported by an Error carrying its id, name and buffer text and by no
\* ToolUse; every other entry is reported by a ToolUse; the Stop(ToolUse)
\* follows; the stream does not end on it (it ends only once the source has).
C6_BadInputJson ==
    /\ (Mapped /\ IsDrain(Last)) =>
        /\ \A i \in DOMAIN EntriesAccumulated :
             LET entry == EntriesAccumulated[i]
             IN  IF entry.arguments # <<>> /\ ~IsObjectText(entry.arguments)
                 THEN /\ \E k \in DOMAIN batch :
                           IsBadInputJson(batch[k]) /\ Reports(batch[k], entry)
                      /\ \A k \in DOMAIN batch :
                           Reports(batch[k], entry) => IsBadInputJson(batch[k])
                 ELSE \E k \in DOMAIN batch :
                           batch[k].type = "ToolUse" /\ Reports(batch[k], entry)
        /\ batch[Len(batch)] = Stop("ToolUse")
    /\ (\E k \in DOMAIN output : IsBadInputJson(output[k])) =>
          (ended => source_ended)

\* C6 witness: an Error for a malformed call and the ToolUse of its sibling
\* have been delivered, then the Stop, then the Text of a later event.
C6_Witness ==
    \E k \in DOMAIN output :
        /\ k + 3 <= Len(output)
        /\ {output[k].type, output[k + 1].type} = {"Error", "ToolUse"}
        /\ \E j \in {k, k + 1} : IsBadInputJson(output[j])
        /\ output[k + 2] = Stop("ToolUse")
        /\ IsText(output[k + 3])

\* C7: at a drain, an entry whose buffer is empty is reported by a ToolUse
\* whose input is the empty object and whose raw_input is the empty string,
\* and no Error of the drain carries an empty buffer.
C7_EmptyArguments ==
    (Mapped /\ IsDrain(Last)) =>
        /\ \A i \in DOMAIN EntriesAccumulated :
             EntriesAccumulated[i].arguments = <<>> =>
                \E k \in DOMAIN batch :
                    batch[k] = ToolUse(EntriesAccumulated[i].id,
                                       EntriesAccumulated[i].name,
                                       JsonObject(<<>>), <<>>)
        /\ \A k \in DOMAIN batch :
             IsBadInputJson(batch[k]) => batch[k].raw_input # <<>>

\* C7 witness: a drain of two entries with an empty buffer, one that
\* received no argument fragment and one that received only an empty one.
C7_Witness ==
    /\ Mapped
    /\ IsDrain(Last)
    /\ \E i, j \in DOMAIN EntriesAccumulated :
         LET fi == AtIndex(FragmentsSinceDrain(Len(consumed)), i)
             fj == AtIndex(FragmentsSinceDrain(Len(consumed)), j)
         IN  /\ EntriesAccumulated[i].arguments = <<>>
             /\ EntriesAccumulated[j].arguments = <<>>
             /\ \A k \in DOMAIN fi : fi[k].function[1].arguments = <<>>
             /\ \E k \in DOMAIN fj : fj[k].function[1].arguments = <<<<>>>>
    /\ Len(SelectSeq(batch, LAMBDA e : e.type = "ToolUse")) = 2

LastFinish(n) ==
    LET finishes == {k \in 1..n : WellFormed(consumed[k])
                                  /\ FinishReason(consumed[k]) # <<>>}
    IN  IF finishes = {} THEN 0
        ELSE CHOOSE k \in finishes : \A j \in finishes : j <= k

\* C4, as claimed: after an event with any finish reason the map is empty,
\* so what a drain reports was received after the last finish reason.
C4_EmptyAfterAnyFinish ==
    /\ (Mapped /\ WellFormed(Last) /\ FinishReason(Last) # <<>>) =>
          tool_calls_by_index = NoCalls
    /\ (Mapped /\ IsDrain(Last)) =>
          LET fresh == ReassembledCalls(
                           FragmentsBetween(LastFinish(Len(consumed) - 1),
                                            Len(consumed)))
          IN  \A k \in DOMAIN batch :
                  IsToolOutput(batch[k]) =>
                      \E i \in DOMAIN fresh : Reports(batch[k], fresh[i])

\* C4, amended: the map is emptied by an event with finish_reason
\* "tool_calls" and by no other: after an event with "stop" or another
\* reason it holds every entry it held before and all that was accumulated
\* since the last drain.
C4_DrainedByToolCallsOnly ==
    (Mapped /\ WellFormed(Last) /\ FinishReason(Last) # <<>>) =>
        IF FinishReason(Last) = <<"tool_calls">>
        THEN tool_calls_by_index = NoCalls
        ELSE /\ DOMAIN prev_calls \subseteq DOMAIN tool_calls_by_index
             /\ tool_calls_by_index = EntriesAccumulated

\* C4 witness: a drain reports a call whose fragments were all received
\* before an earlier event with finish_reason "stop".
C4_Witness ==
    /\ Mapped
    /\ IsDrain(Last)
    /\ FragmentsOf(Last) = <<>>
    /\ \E k \in 1..(Len(consumed) - 1) :
         /\ WellFormed(consumed[k])
         /\ FinishReason(consumed[k]) = <<"stop">>
         /\ FragmentsBetween(k, Len(consumed)) = <<>>
    /\ \E j \in DOMAIN batch : batch[j].type = "ToolUse"

\* An event with no choice, or whose first choice lacks the field read.
Malformed(item) ==
    item.ok /\ (item.choices = <<>> \/ FieldRead(item) = <<>>)

\* C8: an event with no choice, or whose first choice lacks the field the
\* mode reads, yields exactly one Error event and nothing else, whatever its
\* finish_reason; the stream does not end on it.
C8_MalformedEvent ==
    /\ (Mapped /\ Malformed(Last)) =>
          batch = <<OtherError(IF Last.choices = <<>>
                               THEN "Response contained no choices"
                               ELSE "Response contained no delta")>>
    /\ (\E k \in DOMAIN consumed : Malformed(consumed[k])) =>
          (ended => source_ended)

\* C8 witness: an event that lacks the field read, carries "tool_calls" and
\* arrives while the map holds a call; its one Error and then the Text of a
\* later event have been delivered.
C8_Witness ==
    /\ Len(consumed) = 3
    /\ FragmentsOf(consumed[1]) # <<>>
    /\ Malformed(consumed[2])
    /\ consumed[2].choices # <<>>
    /\ FinishReason(consumed[2]) = <<"tool_calls">>
    /\ \E j \in DOMAIN output :
         /\ output[j] = OtherError("Response contained no delta")
         /\ j < Len(output)
         /\ IsText(output[j + 1])

\* C9: an event whose finish_reason is a non-empty string other than "stop"
\* and "tool_calls" yields exactly one Stop, Stop(EndTurn), and no drain
\* output, and the map keeps all it accumulated; an event with no
\* finish_reason yields no Stop.
C9_OtherAndAbsentReason ==
    (Mapped /\ WellFormed(Last)) =>
        /\ (FinishReason(Last) # <<>>
            /\ FinishReason(Last)[1] \notin {"", "stop", "tool_calls"}) =>
              /\ SelectSeq(batch, IsStop) = <<Stop("EndTurn")>>
              /\ \A k \in DOMAIN batch : ~IsToolOutput(batch[k])
              /\ tool_calls_by_index = EntriesAccumulated
              /\ DOMAIN prev_calls \subseteq DOMAIN tool_calls_by_index
        /\ FinishReason(Last) = <<>> => SelectSeq(batch, IsStop) = <<>>

\* C9 witness: an event with finish_reason "length" while the map holds a
\* call, after an event with no finish_reason.
C9_Witness ==
    /\ Len(consumed) >= 2
    /\ WellFormed(Last)
    /\ FinishReason(Last) = <<"length">>
    /\ prev_calls # NoCalls
    /\ WellFormed(consumed[1])
    /\ FinishReason(consumed[1]) = <<>>

\* The content of the delta read from an item, as an Option.
ContentOf(item) ==
    IF WellFormed(item) THEN FieldRead(item)[1].content ELSE <<>>

RECURSIVE ContentsUpTo(_)
\* The contents the first n items carry, in arrival order.
ContentsUpTo(n) ==
    IF n = 0 THEN <<>> ELSE ContentsUpTo(n - 1) \o ContentOf(consumed[n])

\* The texts of the Text events among some outputs, in order.
TextsIn(events) ==
    LET texts == SelectSeq(events, IsText)
    IN  [k \in DOMAIN texts |-> texts[k].text]

\* C10: an event whose delta carries content yields exactly one Text event,
\* with that content, among its own outputs (and an event without content
\* none), and the Text events produced so far are, in order, the contents of
\* the well-formed events consumed so far.
C10_TextUnbuffered ==
    /\ Mapped => TextsIn(batch) = ContentOf(Last)
    /\ TextsIn(output \o pending) = ContentsUpTo(Len(consumed))

\* C10 witness: the texts of two events have been delivered in arrival
\* order, the first from a delta that also carried a tool-call fragment.
C10_Witness ==
    /\ Len(consumed) >= 2
    /\ FragmentsOf(consumed[1]) # <<>>
    /\ TextsIn(output) = <<"w", "h">>

\* ===================================================== the request adapter

\* A String the adapter concatenates (message text) is a sequence of
\* tokens, "a" and "b" for the text a and b; ids, names and urls are only
\* copied and stay TLA+ strings.

\* ------------------------------------------------- host request (messages)

TextContent(text) == [kind |-> "Text", text |-> text]

ThinkingContent(text) == [kind |-> "Thinking", text |-> text]

RedactedThinkingContent == [kind |-> "RedactedThinking"]

\* An image is known by the url to_base64_url gives it.
ImageContent(url) == [kind |-> "Image", url |-> url]

ToolUseContent(id, name, input) ==
    [kind |-> "ToolUse", id |-> id, name |-> name, input |-> input]

ToolResultText(text) == [kind |-> "Text", text |-> text]

ToolResultImage(url) == [kind |-> "Image", url |-> url]

ToolResultContent(tool_use_id, tool_name, content) ==
    [kind |-> "ToolResult", tool_use_id |-> tool_use_id,
     tool_name |-> tool_name, content |-> content]

RequestMessage(role, content) == [role |-> role, content |-> content]

RequestTool(name, description, input_schema) ==
    [name |-> name, description |-> description,
     input_schema |-> input_schema]

\* What the adapter reads of copilot_chat::Model.
Model(id, supports_vision, uses_streaming) ==
    [id |-> id, supports_vision |-> supports_vision,
     uses_streaming |-> uses_streaming]

\* ------------------------------------------------ vendor request (messages)

Plain(text) == [kind |-> "Plain", text |-> text]

Multipart(parts) == [kind |-> "Multipart", parts |-> parts]

ChatMessagePartText(text) == [type |-> "text", text |-> text]

ChatMessagePartImage(url) == [type |-> "image_url", url |-> url]

ChatMessageSystem(content) == [role |-> "system", content |-> content]

ChatMessageUser(content) == [role |-> "user", content |-> content]

ChatMessageAssistant(content, tool_calls) ==
    [role |-> "assistant", content |-> content, tool_calls |-> tool_calls]

ChatMessageTool(tool_call_id, content) ==
    [role |-> "tool", tool_call_id |-> tool_call_id, content |-> content]

ToolCall(id, name, arguments) ==
    [id |-> id, type |-> "function",
     function |-> [name |-> name, arguments |-> arguments]]

ToolFunction(name, description, parameters) ==
    [type |-> "function",
     function |-> [name |-> name, description |-> description,
                   parameters |-> parameters]]

\* -------------------------------------------------------- JSON (to_string)

\* A value whose Serialize implementation reports an error.
Unserializable == [kind |-> "unserializable", members |-> <<>>]

RECURSIVE JoinMembers(_)
JoinMembers(members) ==
    IF members = <<>> THEN <<>>
    ELSE IF Len(members) = 1 THEN <<Head(members)>>
    ELSE <<Head(members), ",">> \o JoinMembers(Tail(members))

\* serde_json::to_string: the token string that spells the value, or the
\* serializer's error.
to_string(value) ==
    IF value.kind = "object"
    THEN [ok |-> TRUE,
          text |-> <<"{">> \o JoinMembers(value.members) \o <<"}">>]
    ELSE [ok |-> FALSE, text |-> <<>>]

\* serde_json::json!({"type": "object"})
NoopParameters == [kind |-> "schema", members |-> <<"type">>]

\* ---------------------------------------------------------- coalescing

\* A message of the role of the last one kept replaces its content.
CoalesceMessageOverwrites(request_messages, message) ==
    IF request_messages # <<>>
       /\ request_messages[Len(request_messages)].role = message.role
    THEN [request_messages EXCEPT ![Len(request_messages)].content =
              message.content]
    ELSE Append(request_messages, message)

\* One turn of the first loop: a message of the role of the last one kept
\* gives it its content, any other message is kept.
CoalesceMessage(request_messages, message) ==
    IF request_messages # <<>>
       /\ request_messages[Len(request_messages)].role = message.role
    THEN [request_messages EXCEPT ![Len(request_messages)].content =
              @ \o message.content]
    ELSE Append(request_messages, message)

RECURSIVE CoalesceFrom(_, _)
CoalesceFrom(request_messages, messages) ==
    IF messages = <<>> THEN request_messages
    ELSE CoalesceFrom(CoalesceMessage(request_messages, Head(messages)),
                      Tail(messages))

Coalesce(messages) == CoalesceFrom(<<>>, messages)

\* ------------------------------------------------ conversions of content

\* String -> ChatMessageContent (.into()).
ContentFromString(text) == Plain(text)

\* Vec<ChatMessagePart> -> ChatMessageContent (.into()).
ContentFromParts(parts) == Multipart(parts)

\* ChatMessageContent::empty()
EmptyContent == Multipart(<<>>)

\* LanguageModelRequestMessage::string_contents: the text of the message's
\* blocks, flattened to one string.
RECURSIVE string_contents(_)
string_contents(content) ==
    IF content = <<>> THEN <<>>
    ELSE (IF Head(content).kind \in {"Text", "Thinking"}
          THEN Head(content).text ELSE <<>>)
         \o string_contents(Tail(content))

\* ------------------------------------------------------------ Role::User

NoVisionNotice ==
    <<"[Tool responded with an image, but this model does not support vision]">>

\* The content of the Tool message of one tool result.  debug_panic! logs
\* in a release build before the notice is substituted.
ToolResultContentOf(tool_result, model) ==
    IF tool_result.content.kind = "Text"
    THEN ContentFromString(tool_result.content.text)
    ELSE IF model.supports_vision
         THEN Multipart(<<ChatMessagePartImage(tool_result.content.url)>>)
         ELSE ContentFromString(NoVisionNotice)

\* The first loop over a User message: one Tool message per tool result.
RECURSIVE ToolMessages(_, _)
ToolMessages(content, model) ==
    IF content = <<>> THEN <<>>
    ELSE (IF Head(content).kind = "ToolResult"
          THEN <<ChatMessageTool(Head(content).tool_use_id,
                                 ToolResultContentOf(Head(content), model))>>
          ELSE <<>>)
         \o ToolMessages(Tail(content), model)

\* Every text is a part of its own.
PushTextAsPart(content_parts, text) ==
    Append(content_parts, ChatMessagePartText(text))

\* A non-empty text after a text part is appended to that part.
PushText(content_parts, text) ==
    IF content_parts # <<>>
       /\ content_parts[Len(content_parts)].type = "text"
    THEN [content_parts EXCEPT ![Len(content_parts)].text = @ \o text]
    ELSE Append(content_parts, ChatMessagePartText(text))

\* An image becomes a part whatever the model.
PushImageAlways(content_parts, image, model) ==
    Append(content_parts, ChatMessagePartImage(image.url))

\* An image becomes a part when the model supports vision.
PushImage(content_parts, image, model) ==
    IF model.supports_vision
    THEN Append(content_parts, ChatMessagePartImage(image.url))
    ELSE content_parts

\* A Thinking block gives no part.
PushPartTextOnly(content_parts, content, model) ==
    IF content.kind = "Text" /\ content.text # <<>>
    THEN PushText(content_parts, content.text)
    ELSE IF content.kind = "Image"
         THEN PushImage(content_parts, content, model)
         ELSE content_parts

\* One turn of the second loop over a User message.
PushPart(content_parts, content, model) ==
    IF content.kind \in {"Text", "Thinking"} /\ content.text # <<>>
    THEN PushText(content_parts, content.text)
    ELSE IF content.kind = "Image"
         THEN PushImage(content_parts, content, model)
         ELSE content_parts

RECURSIVE ContentPartsFrom(_, _, _)
ContentPartsFrom(content_parts, content, model) ==
    IF content = <<>> THEN content_parts
    ELSE ContentPartsFrom(PushPart(content_parts, Head(content), model),
                          Tail(content), model)

ContentParts(content, model) == ContentPartsFrom(<<>>, content, model)

\* The User message first, the Tool messages after it.
UserMessagesPartsFirst(message, model) ==
    LET content_parts == ContentParts(message.content, model)
    IN  (IF content_parts # <<>>
         THEN <<ChatMessageUser(ContentFromParts(content_parts))>>
         ELSE <<>>)
        \o ToolMessages(message.content, model)

\* A User message is pushed even when no part is left.
UserMessagesAlways(message, model) ==
    ToolMessages(message.content, model)
    \o <<ChatMessageUser(ContentFromParts(
             ContentParts(message.content, model)))>>

\* The vendor messages of a User message: its Tool messages, then a User
\* message when a part is left.
UserMessages(message, model) ==
    LET content_parts == ContentParts(message.content, model)
    IN  ToolMessages(message.content, model)
        \o (IF content_parts # <<>>
            THEN <<ChatMessageUser(ContentFromParts(content_parts))>>
            ELSE <<>>)

\* ------------------------------------------------------- Role::Assistant

\* An input that does not serialize is left out.
RECURSIVE ToolCallsFromLenient(_, _)
ToolCallsFromLenient(tool_calls, content) ==
    IF content = <<>> THEN [ok |-> TRUE, tool_calls |-> tool_calls]
    ELSE IF Head(content).kind = "ToolUse" /\ to_string(Head(content).input).ok
         THEN ToolCallsFromLenient(
                  Append(tool_calls,
                         ToolCall(Head(content).id, Head(content).name,
                                  to_string(Head(content).input).text)),
                  Tail(content))
         ELSE ToolCallsFromLenient(tool_calls, Tail(content))

\* The tool calls of an Assistant message; the first input that does not
\* serialize ends the adaptation with its error.
RECURSIVE ToolCallsFrom(_, _)
ToolCallsFrom(tool_calls, content) ==
    IF content = <<>> THEN [ok |-> TRUE, tool_calls |-> tool_calls]
    ELSE IF Head(content).kind # "ToolUse"
         THEN ToolCallsFrom(tool_calls, Tail(content))
         ELSE LET arguments == to_string(Head(content).input)
              IN  IF ~arguments.ok
                  THEN [ok |-> FALSE, tool_calls |-> <<>>]
                  ELSE ToolCallsFrom(
                           Append(tool_calls,
                                  ToolCall(Head(content).id,
                                           Head(content).name,
                                           arguments.text)),
                           Tail(content))

\* tool_called after an Assistant message.
ToolCalled(tool_called, message) ==
    tool_called \/ \E k \in DOMAIN message.content :
                       message.content[k].kind = "ToolUse"

\* The Text texts alone, concatenated.
RECURSIVE TextContentOfTextOnly(_)
TextContentOfTextOnly(content) ==
    IF content = <<>> THEN <<>>
    ELSE (IF Head(content).kind = "Text" THEN Head(content).text ELSE <<>>)
         \o TextContentOfTextOnly(Tail(content))

\* text_content: the Text and Thinking texts of the message, concatenated.
RECURSIVE TextContentOf(_)
TextContentOf(content) ==
    IF content = <<>> THEN <<>>
    ELSE (IF Head(content).kind \in {"Text", "Thinking"}
          THEN Head(content).text ELSE <<>>)
         \o TextContentOf(Tail(content))

AssistantContent(text_content) ==
    IF text_content = <<>> THEN EmptyContent
    ELSE ContentFromString(text_content)

AssistantMessage(message, tool_calls) ==
    ChatMessageAssistant(AssistantContent(TextContentOf(message.content)),
                         tool_calls)

\* -------------------------------------------------------- Role::System

SystemMessage(message) == ChatMessageSystem(string_contents(message.content))

\* --------------------------------------------------- the translation loop

\* One turn of the second loop of into_copilot_chat; `so_far` holds
\* messages and tool_called, and ok is FALSE once `?` has returned.
TranslateMessage(so_far, message, model) ==
    IF message.role = "User"
    THEN [so_far EXCEPT
            !.messages = @ \o UserMessages(message, model)]
    ELSE IF message.role = "Assistant"
    THEN LET calls == ToolCallsFrom(<<>>, message.content)
         IN  IF ~calls.ok
             THEN [so_far EXCEPT !.ok = FALSE]
             ELSE [so_far EXCEPT
                     !.tool_called = ToolCalled(@, message),
                     !.messages =
                         Append(@, AssistantMessage(message,
                                                    calls.tool_calls))]
    ELSE [so_far EXCEPT !.messages = Append(@, SystemMessage(message))]

RECURSIVE TranslateFrom(_, _, _)
TranslateFrom(so_far, request_messages, model) ==
    IF request_messages = <<>> \/ ~so_far.ok THEN so_far
    ELSE TranslateFrom(TranslateMessage(so_far, Head(request_messages),
                                        model),
                       Tail(request_messages), model)

Translate(request_messages, model) ==
    TranslateFrom([ok |-> TRUE, messages |-> <<>>, tool_called |-> FALSE],
                  request_messages, model)

\* ------------------------------------------------------------------ tools

RECURSIVE Tools(_)
Tools(request_tools) ==
    IF request_tools = <<>> THEN <<>>
    ELSE <<ToolFunction(Head(request_tools).name,
                        Head(request_tools).description,
                        Head(request_tools).input_schema)>>
         \o Tools(Tail(request_tools))

NoopTool == ToolFunction("noop", "No operation", NoopParameters)

\* No dummy tool is ever pushed.
WithNoopNever(tools, tool_called) == tools

\* The dummy tool is pushed whenever a tool was called.
WithNoopWhenCalled(tools, tool_called) ==
    IF tool_called THEN Append(tools, NoopTool) ELSE tools

\* The dummy tool is pushed when a tool was called and no tool is given.
WithNoop(tools, tool_called) ==
    IF tool_called /\ tools = <<>> THEN Append(tools, NoopTool) ELSE tools

\* request.tool_choice.map(...)
ToolChoice(tool_choice) ==
    IF tool_choice = None THEN None
    ELSE Some(CASE tool_choice[1] = "Auto" -> "auto"
                [] tool_choice[1] = "Any" -> "any"
                [] OTHER -> "none")

\* ------------------------------------------------------ into_copilot_chat

CopilotChatRequest(model, messages, tools, tool_choice) ==
    [intent |-> TRUE, n |-> 1, stream |-> model.uses_streaming,
     temperature |-> "0.1", model |-> model.id, messages |-> messages,
     tools |-> tools, tool_choice |-> tool_choice]

Ok(value) == [ok |-> TRUE, value |-> value]

Err(error) == [ok |-> FALSE, error |-> error]

into_copilot_chat(model, req) ==
    LET translated == Translate(Coalesce(req.messages), model)
    IN  IF ~translated.ok
        THEN Err("serde_json")
        ELSE Ok(CopilotChatRequest(
                    model, translated.messages,
                    WithNoop(Tools(req.tools), translated.tool_called),
                    ToolChoice(req.tool_choice)))

\* ------------------------------------------------------ stream_completion

\* LanguageModelRequestMessage::contents_empty: every block of the message
\* is empty; a text or a tool result is empty when it holds no text.
contents_empty(message) ==
    \A k \in DOMAIN message.content :
        LET content == message.content[k]
        IN  \/ content.kind \in {"Text", "Thinking"} /\ content.text = <<>>
            \/ /\ content.kind = "ToolResult"
               /\ content.content.kind = "Text"
               /\ content.content.text = <<>>

EMPTY_PROMPT_MSG ==
    "Empty prompts aren't allowed. Please provide a non-empty prompt."

USER_ROLE_MSG == "The final message must be from the user."

\* The role of the last message is the only test.
RejectionRoleOnly(messages) ==
    IF messages = <<>> THEN None
    ELSE IF messages[Len(messages)].role # "User" THEN Some(USER_ROLE_MSG)
    ELSE None

\* The two tests stream_completion makes on request.messages.last().
Rejection(messages) ==
    IF messages = <<>> THEN None
    ELSE IF contents_empty(messages[Len(messages)]) THEN Some(EMPTY_PROMPT_MSG)
    ELSE IF messages[Len(messages)].role # "User" THEN Some(USER_ROLE_MSG)
    ELSE None

\* ------------------------------------------------------------ the requests

\* Messages of one request.
MaxMessages == 3

Object1 == JsonObject(<<"m">>)

UserContents ==
    {<<TextContent(<<"a">>)>>, <<TextContent(<<"b">>)>>,
     <<TextContent(<<>>)>>, <<ThinkingContent(<<"t">>)>>,
     <<ImageContent("img")>>,
     <<ToolResultContent("call_1", "grep", ToolResultText(<<"r">>))>>,
     <<ToolResultContent("call_2", "shot", ToolResultImage("png"))>>,
     <<ToolUseContent("call_3", "grep", Object1)>>}

AssistantContents ==
    {<<TextContent(<<"a">>)>>, <<ThinkingContent(<<"t">>)>>,
     <<ImageContent("img")>>,
     <<ToolUseContent("call_1", "grep", Object1)>>,
     <<ToolUseContent("call_2", "shot", Unserializable)>>}

SystemContents == {<<TextContent(<<"s">>)>>}

RequestMessages ==
    {RequestMessage("User", c) : c \in UserContents}
    \cup {RequestMessage("Assistant", c) : c \in AssistantContents}
    \cup {RequestMessage("System", c) : c \in SystemContents}

Histories ==
    UNION {[1..n -> RequestMessages] : n \in 0..MaxMessages}

Models == {Model("gpt-4o", TRUE, TRUE), Model("o1", FALSE, FALSE)}

ToolLists ==
    {[tools |-> <<>>, tool_choice |-> None],
     [tools |-> <<RequestTool("grep", "search", Object1),
                  RequestTool("shot", "capture", JsonObject(<<>>))>>,
      tool_choice |-> Some("Any")]}

HasImageResult(messages) ==
    \E k \in DOMAIN messages : \E j \in DOMAIN messages[k].content :
        /\ messages[k].content[j].kind = "ToolResult"
        /\ messages[k].content[j].content.kind = "Image"

\* The requests the provider is given.  A tool answers with an image only
\* to a model that supports vision: the tool is where the other case is
\* caught.
Requests ==
    {[model |-> m, messages |-> h, tools |-> t.tools,
      tool_choice |-> t.tool_choice] :
        m \in Models, h \in Histories, t \in ToolLists}

AllowedRequests ==
    {r \in Requests : HasImageResult(r.messages) => r.model.supports_vision}

\* --------------------------------------------- stream_completion, by steps

InitAdapter ==
    /\ is_streaming = FALSE
    /\ tool_calls_by_index = NoCalls
    /\ consumed = <<>>
    /\ source_ended = FALSE
    /\ pending = <<>>
    /\ output = <<>>
    /\ demand = FALSE
    /\ ended = FALSE
    /\ prev_calls = NoCalls
    /\ batch = <<>>
    /\ request \in {Some(r) : r \in AllowedRequests}
    /\ pc = "called"
    /\ copilot_request = None
    /\ returned = None
    /\ dispatched = None
    /\ instances = <<>>

\* The tests on the last message: an error is returned at once.
CheckLast ==
    /\ pc = "called"
    /\ returned' = Rejection(request[1].messages)
    /\ pc' = IF returned' = None THEN "checked" ELSE "returned"
    /\ UNCHANGED <<request, copilot_request, dispatched>>
    /\ UNCHANGED <<normalizer_vars, instances>>

\* into_copilot_chat(&self.model, request): its error is returned at once.
Adapt ==
    /\ pc = "checked"
    /\ LET result == into_copilot_chat(request[1].model, request[1])
       IN  IF result.ok
           THEN /\ copilot_request' = Some(result.value)
                /\ pc' = "adapted"
                /\ UNCHANGED returned
           ELSE /\ returned' = Some(result.error)
                /\ pc' = "returned"
                /\ UNCHANGED copilot_request
    /\ UNCHANGED <<request, dispatched>>
    /\ UNCHANGED <<normalizer_vars, instances>>

\* is_streaming is read off the vendor request, which the spawned future
\* hands to CopilotChat::stream_completion.
Dispatch ==
    /\ pc = "adapted"
    /\ is_streaming' = copilot_request[1].stream
    /\ dispatched' = copilot_request
    /\ pc' = "dispatched"
    /\ UNCHANGED <<request, copilot_request, returned>>
    /\ UNCHANGED <<tool_calls_by_index, consumed, source_ended, pending,
                   output, demand, ended, prev_calls, batch, instances>>

NextAdapter ==
    \/ CheckLast
    \/ Adapt
    \/ Dispatch

SpecAdapter == InitAdapter /\ [][NextAdapter]_vars

\* ------------------------------------------------- the adaptation, read back

\* into_copilot_chat has returned a vendor request.
Adapted == pc \in {"adapted", "dispatched"}

\* The host messages from the first of the trailing User messages on: the
\* messages the last coalesced message is made of.
LastTurn ==
    LET messages == request[1].messages
    IN  {k \in DOMAIN messages :
            \A j \in k..Len(messages) : messages[j].role = "User"}

\* A block of a User message that gives a content part.
LeavesPart(content, model) ==
    \/ content.kind \in {"Text", "Thinking"} /\ content.text # <<>>
    \/ content.kind = "Image" /\ model.supports_vision

LastTurnHas(Test(_)) ==
    \E k \in LastTurn : \E j \in DOMAIN request[1].messages[k].content :
        Test(request[1].messages[k].content[j])

LastTurnLeavesPart ==
    LET Test(content) == LeavesPart(content, request[1].model)
    IN  LastTurnHas(Test)

LastTurnHasToolResult ==
    LET Test(content) == content.kind = "ToolResult"
    IN  LastTurnHas(Test)

LastVendorRole ==
    LET messages == copilot_request[1].messages
    IN  IF messages = <<>> THEN "none" ELSE messages[Len(messages)].role

AdaptReturned == Adapted \/ (pc = "returned" /\ returned = Some("serde_json"))

\* The blocks of the messages of the given roles.
BlocksOf(roles) ==
    UNION {{request[1].messages[k].content[j] :
                j \in DOMAIN request[1].messages[k].content} :
             k \in {i \in DOMAIN request[1].messages :
                      request[1].messages[i].role \in roles}}

HasToolUse(roles) == \E content \in BlocksOf(roles) : content.kind = "ToolUse"

OnlyNoop(tools) == Len(tools) = 1 /\ tools[1].function.name = "noop"

\* C12 as stated: a request with a ToolUse block in a message of any role
\* and no tool is adapted to a vendor request whose one tool is "noop".
C12_NoopForAnyToolUse ==
    AdaptReturned /\ HasToolUse({"User", "Assistant", "System"})
                  /\ request[1].tools = <<>> =>
        Adapted /\ OnlyNoop(copilot_request[1].tools)

\* C12: a request with a ToolUse block in an Assistant message and no tool
\* is, when its adaptation succeeds, adapted to a vendor request whose one
\* tool is "noop".
C12_NoopForAssistantToolUse ==
    Adapted /\ HasToolUse({"Assistant"}) /\ request[1].tools = <<>> =>
        OnlyNoop(copilot_request[1].tools)

C12_Witness ==
    /\ Adapted
    /\ HasToolUse({"Assistant"})
    /\ request[1].tools = <<>>
    /\ copilot_request[1].tools = <<NoopTool>>

\* Two consecutive User messages with the text a and the text b.
TextAThenTextB ==
    <<RequestMessage("User", <<TextContent(<<"a">>)>>),
      RequestMessage("User", <<TextContent(<<"b">>)>>)>>

\* C13 as stated: the two messages are adapted to one vendor User message
\* with the two parts a and b, in that order.
C13_TwoParts ==
    Adapted /\ request[1].messages = TextAThenTextB =>
        copilot_request[1].messages =
            <<ChatMessageUser(ContentFromParts(
                  <<ChatMessagePartText(<<"a">>),
                    ChatMessagePartText(<<"b">>)>>))>>

\* C13: the two messages are adapted to one vendor User message with one
\* text part, the text ab.
C13_OneMergedPart ==
    Adapted /\ request[1].messages = TextAThenTextB =>
        copilot_request[1].messages =
            <<ChatMessageUser(ContentFromParts(
                  <<ChatMessagePartText(<<"a", "b">>)>>))>>

C13_Witness ==
    /\ Adapted
    /\ request[1].messages = TextAThenTextB
    /\ Len(copilot_request[1].messages) = 1

\* The blocks of a list of messages, each with the role of its message,
\* in order.
RECURSIVE RoleBlocks(_)
RoleBlocks(messages) ==
    IF messages = <<>> THEN <<>>
    ELSE [j \in DOMAIN Head(messages).content |->
            [role |-> Head(messages).role,
             content |-> Head(messages).content[j]]]
         \o RoleBlocks(Tail(messages))

AdjacentSameRole(messages) ==
    \E k \in DOMAIN messages :
        k + 1 \in DOMAIN messages /\ messages[k].role = messages[k + 1].role

\* C14: the coalesced list of every request has no two adjacent messages
\* of the same role, and its blocks, read in order with their roles, are
\* the blocks of the request.
C14_Coalescing ==
    AdaptReturned =>
        LET request_messages == Coalesce(request[1].messages)
        IN  /\ ~AdjacentSameRole(request_messages)
            /\ RoleBlocks(request_messages) = RoleBlocks(request[1].messages)

C14_Witness ==
    /\ AdaptReturned
    /\ AdjacentSameRole(request[1].messages)
    /\ Len(Coalesce(request[1].messages)) = 2
    /\ Len(request[1].messages) = 3

\* The urls of the image parts of the vendor messages of one role (user,
\* assistant or tool), in order.
RECURSIVE ImageUrlsIn(_, _)
ImageUrlsIn(messages, role) ==
    IF messages = <<>> THEN <<>>
    ELSE (IF Head(messages).role = role
             /\ Head(messages).content.kind = "Multipart"
          THEN LET images == SelectSeq(Head(messages).content.parts,
                                       LAMBDA part : part.type = "image_url")
               IN  [j \in DOMAIN images |-> images[j].url]
          ELSE <<>>)
         \o ImageUrlsIn(Tail(messages), role)

\* The urls of the Image blocks of the host messages of one role, in order.
HostImageUrls(role) ==
    LET images == SelectSeq(RoleBlocks(request[1].messages),
                            LAMBDA b : b.role = role
                                       /\ b.content.kind = "Image")
    IN  [j \in DOMAIN images |-> images[j].content.url]

\* The urls of the image tool results of the User messages, in order.
HostImageResultUrls ==
    LET IsImageResult(b) ==
            /\ b.role = "User"
            /\ b.content.kind = "ToolResult"
            /\ b.content.content.kind = "Image"
        images == SelectSeq(RoleBlocks(request[1].messages), IsImageResult)
    IN  [j \in DOMAIN images |-> images[j].content.content.url]

\* C15 as stated: an Image block of the request, whatever the role of its
\* message, is an image part of the vendor request if and only if the
\* model supports vision.
C15_EveryImageGated ==
    Adapted =>
        \A role \in {"User", "Assistant", "System"} :
            \A k \in DOMAIN HostImageUrls(role) :
                (\E vendor_role \in {"user", "assistant", "tool"} :
                    \E j \in DOMAIN ImageUrlsIn(copilot_request[1].messages,
                                                vendor_role) :
                        ImageUrlsIn(copilot_request[1].messages,
                                    vendor_role)[j] = HostImageUrls(role)[k])
                <=> request[1].model.supports_vision

\* C15: the image parts of the vendor User messages are the Image blocks
\* of the host User messages, in order, when the model supports vision,
\* and none when it does not; the image parts of the Tool messages are
\* the image tool results under the same condition; an Image block of an
\* Assistant message is never a part of the vendor request.
C15_UserImagesGated ==
    Adapted =>
        LET vision == request[1].model.supports_vision
            messages == copilot_request[1].messages
        IN  /\ ImageUrlsIn(messages, "user") =
                 IF vision THEN HostImageUrls("User") ELSE <<>>
            /\ ImageUrlsIn(messages, "tool") =
                 IF vision THEN HostImageResultUrls ELSE <<>>
            /\ ImageUrlsIn(messages, "assistant") = <<>>

C15_Witness ==
    /\ Adapted
    /\ HostImageUrls("User") # <<>>
    /\ HostImageUrls("Assistant") # <<>>
    /\ ImageUrlsIn(copilot_request[1].messages, "user") # <<>>

\* The input of a ToolUse block of an Assistant message does not serialize.
AssistantInputFails ==
    \E content \in BlocksOf({"Assistant"}) :
        content.kind = "ToolUse" /\ ~to_string(content.input).ok

Calls == {1, 2}

\* Call 1 is sent the call a of the function f, call 2 the call b of g,
\* both at index 0.
TwoChoices(i) ==
    IF i = 1
    THEN {Placed(ResponseDelta(None, <<OpenCall(0)>>), None, None, TRUE),
          Placed(ResponseDelta(None, <<CloseCall(0)>>), None,
                 Some("tool_calls"), TRUE),
          Placed(ResponseDelta(Some("h"), <<>>), None, Some("stop"), TRUE)}
    ELSE {Placed(ResponseDelta(None, <<BareCall(0)>>), None, None, TRUE),
          Placed(ResponseDelta(None, <<MemberCall(0)>>), None, None, TRUE),
          Placed(ResponseDelta(None, <<>>), None, Some("tool_calls"), TRUE)}

TwoItems(i) == {OkEvent(<<c>>) : c \in TwoChoices(i)}

\* State { events, tool_calls_by_index: HashMap::default() }, with the
\* items taken and the results returned so far.
NewState ==
    [tool_calls_by_index |-> NoCalls, consumed |-> <<>>, produced |-> <<>>,
     ended |-> FALSE]

\* One map behind every call: what a call's closure leaves is left to all.
KeepStateShared(states, i, calls) ==
    [j \in DOMAIN states |-> [states[j] EXCEPT !.tool_calls_by_index = calls]]

\* The closure hands its own state on to its next run.
KeepState(states, i, calls) ==
    [states EXCEPT ![i].tool_calls_by_index = calls]

InitTwo ==
    /\ is_streaming = TRUE
    /\ tool_calls_by_index = NoCalls
    /\ consumed = <<>>
    /\ source_ended = FALSE
    /\ pending = <<>>
    /\ output = <<>>
    /\ demand = FALSE
    /\ ended = FALSE
    /\ prev_calls = NoCalls
    /\ batch = <<>>
    /\ NoCall
    /\ instances = [i \in Calls |-> NewState]

\* The closure of call i takes `item` from its source.
Feed(i, item) ==
    /\ ~instances[i].ended
    /\ Len(instances[i].consumed) < MaxEvents
    /\ \E order \in DrainOrders(CallsAtDrain(Some(item),
                                             instances[i].tool_calls_by_index,
                                             is_streaming)) :
         LET step == Unfold(Some(item), instances[i].tool_calls_by_index,
                            order, is_streaming)
         IN  /\ step # None
             /\ instances' =
                  KeepState([instances EXCEPT
                               ![i].consumed = Append(@, item),
                               ![i].produced = @ \o step[1].events],
                            i, step[1].calls)
    /\ UNCHANGED <<normalizer_vars, adapter_vars>>

\* The source of call i ends, and so does its stream.
Finish(i) ==
    /\ ~instances[i].ended
    /\ Unfold(None, instances[i].tool_calls_by_index, <<>>, is_streaming)
         = None
    /\ instances' = [instances EXCEPT ![i].ended = TRUE]
    /\ UNCHANGED <<normalizer_vars, adapter_vars>>

NextTwo ==
    \/ \E i \in Calls : \E item \in TwoItems(i) : Feed(i, item)
    \/ \E i \in Calls : Finish(i)

SpecTwo == InitTwo /\ [][NextTwo]_vars

\* What one call returns for `items` when no other call runs: the Vecs of
\* its closure, from an empty map on.
RECURSIVE RunAlone(_, _)
RunAlone(calls, items) ==
    IF items = <<>> THEN <<>>
    ELSE LET order == CHOOSE o \in DrainOrders(
                          CallsAtDrain(Some(Head(items)), calls, TRUE)) : TRUE
             step == Unfold(Some(Head(items)), calls, order, TRUE)
         IN  step[1].events \o RunAlone(step[1].calls, Tail(items))

\* The id and the name of the call that call i is sent.
OwnId(i) == IF i = 1 THEN "a" ELSE "b"

OwnName(i) == IF i = 1 THEN "f" ELSE "g"

ToolOutputId(event) == event.id

\* C18: in every interleaving of two calls, the results of each call are
\* the results it returns for its items when it runs alone, and a tool
\* output of a call never carries the id or the name the other call was
\* sent.
C18_Isolation ==
    \A i \in DOMAIN instances :
        /\ instances[i].produced = RunAlone(NoCalls, instances[i].consumed)
        /\ \A k \in DOMAIN instances[i].produced :
              IsToolOutput(instances[i].produced[k]) =>
                  \A j \in DOMAIN instances \ {i} :
                      /\ ToolOutputId(instances[i].produced[k]) # OwnId(j)
                      /\ ToolOutputName(instances[i].produced[k]) # OwnName(j)

C18_Witness ==
    /\ instances # <<>>
    /\ \A i \in Calls :
          /\ instances[i].tool_calls_by_index # NoCalls
          /\ \E k \in DOMAIN instances[i].produced :
                IsToolOutput(instances[i].produced[k])

\* ======================================================== pulls and the end

\* The last Len(batch) outputs delivered are the Vec of the last item.
BatchDelivered ==
    /\ Len(output) >= Len(batch)
    /\ SubSeq(output, Len(output) - Len(batch) + 1, Len(output)) = batch

\* A step of the normalizer that is not the consumer's pull.
Works ==
    \/ consumed' # consumed
    \/ source_ended' # source_ended
    \/ output' # output
    \/ pending' # pending
    \/ tool_calls_by_index' # tool_calls_by_index
    \/ ended' # ended

\* C19: the normalizer works only while a pull of the consumer is
\* unanswered; it polls the source only when the Vec of the previous item
\* is delivered to its last element; a pull is answered by one output or
\* by the end, so a consumer that pulls no more sees nothing more taken or
\* produced.
C19_PullDriven ==
    [][/\ Works => demand
       /\ consumed' # consumed \/ source_ended' # source_ended =>
              pending = <<>> /\ BatchDelivered
       /\ output' # output =>
              /\ Len(output') = Len(output) + 1
              /\ ~demand'
       /\ ended' # ended => ~demand']_vars

C19_Witness ==
    /\ ~demand
    /\ ~ended
    /\ pending # <<>>
    /\ Len(consumed) = 2
    /\ ~source_ended

\* A finite source, polled by a consumer that keeps pulling: a few items,
\* among them one that stops, a call in two fragments, a transport failure
\* and an item with no output.
LiveItems(streaming) ==
    {ErrItem("transport")}
    \cup {OkEvent(<<c>>) :
            c \in IF streaming
                  THEN {Placed(ResponseDelta(Some("h"), <<>>), None,
                               Some("stop"), TRUE),
                        Placed(ResponseDelta(None, <<>>), None, None, TRUE),
                        Placed(ResponseDelta(Some("w"), <<OpenCall(0)>>),
                               None, None, TRUE),
                        Placed(ResponseDelta(None, <<CloseCall(0)>>), None,
                               Some("tool_calls"), TRUE)}
                  ELSE {Placed(ResponseDelta(Some("h"), <<>>), None,
                               Some("stop"), FALSE),
                        Placed(ResponseDelta(None, <<FullCall(0),
                                                     BareCall(1)>>),
                               None, Some("tool_calls"), FALSE)}}

\* The source yields its next item, or ends.
SourceStep ==
    \/ \E item \in LiveItems(is_streaming) : PollItem(item)
    \/ SourceEnd

NextLive ==
    \/ Pull
    \/ Deliver
    \/ SourceStep

\* The consumer keeps pulling, flat_map keeps handing over what it holds,
\* and the source, polled, answers.
SpecLive ==
    /\ Init
    /\ [][NextLive]_vars
    /\ WF_vars(Pull)
    /\ WF_vars(Deliver)
    /\ WF_vars(SourceStep)

\* How many outputs item k gives: one error when it is not well-formed;
\* else a Text per content, an output per entry drained, a Stop per
\* finish_reason.
OutputsOf(k) ==
    IF ~WellFormed(consumed[k]) THEN 1
    ELSE Len(ContentOf(consumed[k]))
         + (IF IsDrain(consumed[k])
            THEN Cardinality(IndicesOf(FragmentsSinceDrain(k)))
            ELSE 0)
         + Len(FinishReason(consumed[k]))

RECURSIVE OutputsUpTo(_)
OutputsUpTo(n) == IF n = 0 THEN 0 ELSE OutputsUpTo(n - 1) + OutputsOf(n)

\* The outputs at the places of item k, were every item's delivered.
OutputsAt(k) ==
    SubSeq(output, OutputsUpTo(k - 1) + 1, OutputsUpTo(k))

\* Every item's outputs are delivered, item after item in arrival order.
AllDelivered ==
    /\ Len(output) = OutputsUpTo(Len(consumed))
    /\ \A k \in DOMAIN consumed :
          LET item == consumed[k]
              outs == OutputsAt(k)
          IN  IF ~WellFormed(item)
              THEN outs[1].type = "Error" /\ ~IsBadInputJson(outs[1])
              ELSE /\ ContentOf(item) # None =>
                          outs[1] = Text(ContentOf(item)[1])
                   /\ FinishReason(item) # None => IsStop(outs[Len(outs)])
                   /\ \A j \in DOMAIN outs :
                          /\ IsText(outs[j]) =>
                                 j = 1 /\ ContentOf(item) # None
                          /\ IsStop(outs[j]) =>
                                 j = Len(outs) /\ FinishReason(item) # None
                          /\ ~IsText(outs[j]) /\ ~IsStop(outs[j]) =>
                                 IsDrain(item) /\ IsToolOutput(outs[j])

\* C20: with a finite source and a consumer that keeps pulling, the output
\* sequence ends; it ends only after the source has ended, and by then the
\* outputs of every item have been delivered, in arrival order; a Stop is
\* not the end.
C20_EndsAfterAllDelivered ==
    /\ <>ended
    /\ [](ended => source_ended /\ pending = <<>> /\ AllDelivered)

C20_Witness ==
    /\ ended
    /\ source_ended
    /\ Len(consumed) >= 2
    /\ \E k \in DOMAIN output : IsStop(output[k]) /\ k < Len(output)

\* ================================================ the messages, run by run

\* A run is a maximal stretch of host messages of one role: what one
\* coalesced message is made of.
RunEnd(k) ==
    LET messages == request[1].messages
    IN  CHOOSE e \in k..Len(messages) :
            /\ \A j \in k..e : messages[j].role = messages[k].role
            /\ e = Len(messages) \/ messages[e + 1].role # messages[k].role

RECURSIVE BlocksBetween(_, _)
BlocksBetween(from, to) ==
    IF to < from THEN <<>>
    ELSE BlocksBetween(from, to - 1) \o request[1].messages[to].content

RunBlocks(k) == BlocksBetween(k, RunEnd(k))

\* What is read of a vendor message: its role and, of a Tool message, the
\* id of the call it answers.
Outline(role, id) == [role |-> role, id |-> id]

OutlineOf(message) ==
    Outline(message.role,
            IF message.role = "tool" THEN message.tool_call_id ELSE "")

\* The outline a run of User messages is to give: a Tool message per tool
\* result, in block order, then a User message if a block leaves a part.
UserOutline(blocks) ==
    LET results == SelectSeq(blocks, LAMBDA b : b.kind = "ToolResult")
    IN  [j \in DOMAIN results |-> Outline("tool", results[j].tool_use_id)]
        \o (IF \E j \in DOMAIN blocks :
                   LeavesPart(blocks[j], request[1].model)
            THEN <<Outline("user", "")>>
            ELSE <<>>)

RECURSIVE OutlineFrom(_)
OutlineFrom(k) ==
    IF k > Len(request[1].messages) THEN <<>>
    ELSE (IF request[1].messages[k].role = "User"
          THEN UserOutline(RunBlocks(k))
          ELSE IF request[1].messages[k].role = "Assistant"
          THEN <<Outline("assistant", "")>>
          ELSE <<Outline("system", "")>>)
         \o OutlineFrom(RunEnd(k) + 1)

\* The tool results of the User messages, in order.
HostResults ==
    LET results == SelectSeq(RoleBlocks(request[1].messages),
                             LAMBDA b : b.role = "User"
                                        /\ b.content.kind = "ToolResult")
    IN  [j \in DOMAIN results |-> results[j].content]

VendorOfRole(role) ==
    SelectSeq(copilot_request[1].messages, LAMBDA m : m.role = role)

\* C21: the vendor messages are, run by run, those of each coalesced
\* message; a coalesced User message gives one Tool message per tool result,
\* in block order, each with the id and the content of its result, then one
\* User message if a non-empty Text or Thinking block or (with vision) an
\* Image block leaves a part, and no User message otherwise.
C21_ToolMessagesThenUser ==
    Adapted =>
        /\ [j \in DOMAIN copilot_request[1].messages |->
               OutlineOf(copilot_request[1].messages[j])] = OutlineFrom(1)
        /\ Len(VendorOfRole("tool")) = Len(HostResults)
        /\ \A j \in DOMAIN HostResults :
              LET result == HostResults[j]
                  message == VendorOfRole("tool")[j]
              IN  /\ message.tool_call_id = result.tool_use_id
                  /\ IF result.content.kind = "Text"
                     THEN message.content
                            = ContentFromString(result.content.text)
                     ELSE ImageUrlsIn(<<message>>, "tool")
                            = <<result.content.url>>

\* A run of three User messages, two tool results after a text: the Tool
\* messages still come first.
C21_Witness ==
    /\ Adapted
    /\ Len(request[1].messages) = 3
    /\ RunEnd(1) = 3
    /\ request[1].messages[1].content[1].kind = "Text"
    /\ request[1].messages[2].content[1].kind = "ToolResult"
    /\ request[1].messages[3].content[1].kind = "ToolResult"
    /\ Len(copilot_request[1].messages) = 3
    /\ copilot_request[1].messages[3].role = "user"

\* The starts of the runs of User messages that leave a part, in order.
RECURSIVE UserRunsFrom(_)
UserRunsFrom(k) ==
    IF k > Len(request[1].messages) THEN <<>>
    ELSE (IF /\ request[1].messages[k].role = "User"
             /\ \E j \in DOMAIN RunBlocks(k) :
                   LeavesPart(RunBlocks(k)[j], request[1].model)
          THEN <<k>> ELSE <<>>)
         \o UserRunsFrom(RunEnd(k) + 1)

RECURSIVE Concatenation(_)
Concatenation(texts) ==
    IF texts = <<>> THEN <<>> ELSE Head(texts) \o Concatenation(Tail(texts))

\* The texts of the Text and Thinking blocks among some blocks, in order.
TextsOfBlocks(blocks) ==
    LET spans == SelectSeq(blocks, LAMBDA b : b.kind \in {"Text", "Thinking"})
    IN  [j \in DOMAIN spans |-> spans[j].text]

\* The texts of the text parts among some parts, in order.
TextsOfParts(parts) ==
    LET spans == SelectSeq(parts, LAMBDA part : part.type = "text")
    IN  [j \in DOMAIN spans |-> spans[j].text]

\* C22: the parts of every vendor User message, as handed to the content
\* conversion, hold no two consecutive text parts and no empty text part,
\* and their texts concatenated are the texts of the Text and Thinking
\* blocks of its run, concatenated in order.
C22_TextPartsMerged ==
    Adapted =>
        /\ Len(VendorOfRole("user")) = Len(UserRunsFrom(1))
        /\ \A j \in DOMAIN UserRunsFrom(1) :
              \E parts \in {ContentParts(RunBlocks(UserRunsFrom(1)[j]),
                                         request[1].model)} :
                  /\ VendorOfRole("user")[j].content = ContentFromParts(parts)
                  /\ \A k \in DOMAIN parts :
                        /\ k + 1 \in DOMAIN parts =>
                               ~(parts[k].type = "text"
                                 /\ parts[k + 1].type = "text")
                        /\ parts[k].type = "text" => parts[k].text # <<>>
                  /\ Concatenation(TextsOfParts(parts))
                       = Concatenation(TextsOfBlocks(
                             RunBlocks(UserRunsFrom(1)[j])))

\* A run of a text, an image and a thinking text for a model without
\* vision: the two texts end in one part.
C22_Witness ==
    /\ Adapted
    /\ Len(request[1].messages) = 3
    /\ RunEnd(1) = 3
    /\ request[1].messages[1].content[1].kind = "Text"
    /\ request[1].messages[2].content[1].kind = "Image"
    /\ request[1].messages[3].content[1].kind = "Thinking"
    /\ ~request[1].model.supports_vision
    /\ copilot_request[1].messages =
         <<ChatMessageUser(ContentFromParts(
               <<ChatMessagePartText(request[1].messages[1].content[1].text
                                     \o <<"t">>)>>))>>

\* The starts of the runs of Assistant messages, in order.
RECURSIVE AssistantRunsFrom(_)
AssistantRunsFrom(k) ==
    IF k > Len(request[1].messages) THEN <<>>
    ELSE (IF request[1].messages[k].role = "Assistant"
          THEN <<k>> ELSE <<>>)
         \o AssistantRunsFrom(RunEnd(k) + 1)

\* C23: every coalesced Assistant message gives exactly one vendor
\* Assistant message; its tool calls are the ToolUse blocks of the message
\* in block order, each with the id and name of its block and arguments
\* that spell the block's input; its content is the texts of the Text and
\* Thinking blocks concatenated in order, or the empty content when there
\* is no text.
C23_AssistantMessage ==
    Adapted =>
        /\ Len(VendorOfRole("assistant")) = Len(AssistantRunsFrom(1))
        /\ \A j \in DOMAIN AssistantRunsFrom(1) :
              LET blocks == RunBlocks(AssistantRunsFrom(1)[j])
                  uses == SelectSeq(blocks, LAMBDA b : b.kind = "ToolUse")
                  text == Concatenation(TextsOfBlocks(blocks))
                  message == VendorOfRole("assistant")[j]
              IN  /\ Len(message.tool_calls) = Len(uses)
                  /\ \A k \in DOMAIN uses :
                        /\ message.tool_calls[k].id = uses[k].id
                        /\ message.tool_calls[k].function.name = uses[k].name
                        /\ FromStr(message.tool_calls[k].function.arguments)
                             = [ok |-> TRUE, value |-> uses[k].input,
                                error |-> ""]
                  /\ message.content =
                       IF text = <<>> THEN EmptyContent
                       ELSE ContentFromString(text)

\* Two Assistant messages coalesced, a tool call and an image: no text, and
\* the vendor Assistant message is there with the empty content.
C23_Witness ==
    /\ Adapted
    /\ Len(AssistantRunsFrom(1)) = 1
    /\ RunEnd(AssistantRunsFrom(1)[1]) > AssistantRunsFrom(1)[1]
    /\ Len(VendorOfRole("assistant")) = 1
    /\ VendorOfRole("assistant")[1].content = EmptyContent
    /\ Len(VendorOfRole("assistant")[1].tool_calls) = 1

\* C24: when the request gives a tool, or no Assistant message holds a
\* ToolUse block, the vendor tools are the request's tools, one for one in
\* the same order with their name, description and schema, and none is
\* the dummy tool; the dummy tool is there only when an Assistant message
\* holds a ToolUse block and the request gives no tool.
C24_NoopOnlyWhenNeeded ==
    Adapted =>
        LET tools == copilot_request[1].tools
        IN  /\ request[1].tools # <<>> \/ ~HasToolUse({"Assistant"}) =>
                  /\ Len(tools) = Len(request[1].tools)
                  /\ \A k \in DOMAIN tools :
                        /\ tools[k].function.name = request[1].tools[k].name
                        /\ tools[k].function.description
                             = request[1].tools[k].description
                        /\ tools[k].function.parameters
                             = request[1].tools[k].input_schema
            /\ (\E k \in DOMAIN tools : tools[k].function.name = "noop") =>
                  HasToolUse({"Assistant"}) /\ request[1].tools = <<>>

\* An Assistant message holds a ToolUse block and the request gives two
\* tools: they are the vendor tools.
C24_Witness ==
    /\ Adapted
    /\ HasToolUse({"Assistant"})
    /\ Len(request[1].tools) = 2
    /\ Len(copilot_request[1].tools) = 2

\* ================================================ events of several choices

\* What the delta of the second choice, and the field the mode does not
\* read, hold: a text and a call of their own.
Decoy == ResponseDelta(Some("w"), <<BareCall(1)>>)

FirstChoices(streaming) ==
    {Placed(ResponseDelta(Some("h"), <<>>), Some(Decoy), Some("stop"),
            streaming),
     Placed(ResponseDelta(None, <<OpenCall(0)>>), None, None, streaming),
     Placed(ResponseDelta(None, <<CloseCall(0)>>), Some(Decoy),
            Some("tool_calls"), streaming),
     Missing(Some(Decoy), Some("tool_calls"), streaming)}

SecondChoices(streaming) ==
    {Placed(Decoy, None, Some("tool_calls"), streaming),
     Placed(ResponseDelta(None, <<>>), Some(Decoy), Some("stop"), streaming)}

ChoiceItems(streaming) ==
    {OkEvent(<<first>>) : first \in FirstChoices(streaming)}
    \cup {OkEvent(<<first, second>>) :
            first \in FirstChoices(streaming),
            second \in SecondChoices(streaming)}

NextChoices ==
    \/ Pull
    \/ Deliver
    \/ \E item \in ChoiceItems(is_streaming) : PollItem(item)
    \/ SourceEnd

SpecChoices == Init /\ [][NextChoices]_vars

\* C25: what an event with a choice yields, and the map it leaves, are
\* what the event of its first choice alone yields and leaves; the Text it
\* yields is the content of the delta field of that choice when streaming
\* and of its message field when not, and with that field absent it yields
\* the one error and leaves the map alone.
C25_FirstChoiceOnly ==
    Mapped /\ Last.ok /\ Last.choices # <<>> =>
        LET first == Last.choices[1]
            alone == Some(OkEvent(<<first>>))
            read == IF is_streaming THEN first.delta ELSE first.message
        IN  /\ \E order \in DrainOrders(CallsAtDrain(alone, prev_calls,
                                                     is_streaming)) :
                   Unfold(alone, prev_calls, order, is_streaming)
                     = Some([events |-> batch,
                             calls |-> tool_calls_by_index])
            /\ IF read = None
               THEN /\ Len(batch) = 1
                    /\ batch[1].type = "Error"
                    /\ tool_calls_by_index = prev_calls
               ELSE /\ TextsIn(batch) = read[1].content
                    /\ ~IsDrain(Last) =>
                          tool_calls_by_index = ReassembledCalls(
                              FragmentsSinceDrain(Len(consumed)))
                    /\ \A k \in DOMAIN batch :
                          IsToolOutput(batch[k]) =>
                              ToolOutputName(batch[k]) # "g"

\* An event of two choices, the second with a text, a call and a finish
\* reason of its own, has been mapped when not streaming.
C25_Witness ==
    /\ Mapped
    /\ ~is_streaming
    /\ Len(Last.choices) = 2
    /\ Last.choices[2].finish_reason = Some("tool_calls")
    /\ WellFormed(Last)
    /\ batch = <<Text("h"), Stop("EndTurn")>>

\* ================================================== the Vec of one event

\* C26: in the Vec of one item a Text is first and a Stop is last, so the
\* outputs of a drain lie between them; there is at most one Text and at
\* most one Stop, and a ToolUse or tool-argument Error only in the Vec of
\* an event that drains.
C26_OrderInBatch ==
    Mapped =>
        /\ Len(SelectSeq(batch, IsText)) <= 1
        /\ Len(SelectSeq(batch, IsStop)) <= 1
        /\ \A k \in DOMAIN batch :
              /\ IsText(batch[k]) => k = 1
              /\ IsStop(batch[k]) => k = Len(batch)
              /\ IsToolOutput(batch[k]) => IsDrain(Last)

\* An event gives a Text, then the outputs of two entries, then the Stop.
C26_Witness ==
    /\ Mapped
    /\ Len(batch) = 4
    /\ IsText(batch[1])
    /\ IsToolOutput(batch[2])
    /\ IsToolOutput(batch[3])
    /\ IsStop(batch[4])

\* The last k elements of a sequence.
Suffix(seq, k) == SubSeq(seq, Len(seq) - k + 1, Len(seq))

\* C27: the fragments an event carries along with finish_reason
\* "tool_calls" are in what that event reports: for each index they name,
\* an output of the event reports the entry made of every fragment since
\* the last drain, theirs included, its raw_input ending with their
\* argument text; none of them is left in the map.
C27_FragmentsOfDrainingEvent ==
    Mapped /\ IsDrain(Last) /\ FragmentsOf(Last) # <<>> =>
        /\ \A index \in IndicesOf(FragmentsOf(Last)) :
              LET own == ArgumentTextOf(AtIndex(FragmentsOf(Last), index))
                  entry == Reassembled(AtIndex(
                               FragmentsSinceDrain(Len(consumed)), index))
              IN  \E k \in DOMAIN batch :
                      /\ Reports(batch[k], entry)
                      /\ Len(batch[k].raw_input) >= Len(own)
                      /\ Suffix(batch[k].raw_input, Len(own)) = own
        /\ tool_calls_by_index = NoCalls

\* A call opened by an earlier event is closed by the event that drains.
C27_Witness ==
    /\ Mapped
    /\ IsDrain(Last)
    /\ FragmentsOf(Last) = <<CloseCall(0)>>
    /\ \E k \in DOMAIN batch :
          /\ batch[k].type = "ToolUse"
          /\ batch[k].raw_input = <<"{", "}">>

\* C28: an item that is a transport error, has no choice or lacks the
\* field read, and a well-formed event with no fragment whose
\* finish_reason is not "tool_calls", leave the map as it was.
C28_MapLeftAlone ==
    Mapped /\ (~WellFormed(Last)
               \/ (FragmentsOf(Last) = <<>> /\ ~IsDrain(Last))) =>
        tool_calls_by_index = prev_calls

\* An event with no choice, then a transport error, met with an entry in
\* the map.
C28_Witness ==
    /\ Len(consumed) = 3
    /\ consumed[2] = OkEvent(<<>>)
    /\ ~consumed[3].ok
    /\ tool_calls_by_index = prev_calls
    /\ tool_calls_by_index # NoCalls

\* ================================================= the tests on the request

\* C29: a request whose last message has empty contents, or is not a User
\* message, is answered with the error of the test it fails (the empty
\* one first), with no vendor request made and nothing handed to the
\* transport; every other request, one with no message among them, passes
\* on to the adaptation.
C29_RejectedBeforeAdaptation ==
    pc # "called" =>
        LET messages == request[1].messages
        IN  IF messages # <<>>
               /\ (contents_empty(messages[Len(messages)])
                   \/ messages[Len(messages)].role # "User")
            THEN /\ pc = "returned"
                 /\ returned =
                      Some(IF contents_empty(messages[Len(messages)])
                           THEN EMPTY_PROMPT_MSG ELSE USER_ROLE_MSG)
                 /\ copilot_request = None
                 /\ dispatched = None
            ELSE /\ returned \notin {Some(EMPTY_PROMPT_MSG),
                                     Some(USER_ROLE_MSG)}
                 /\ pc = "returned" => returned = Some("serde_json")

\* A request whose last message is a User message with an empty text is
\* turned down after two messages that would have been adapted.
C29_Witness ==
    /\ pc = "returned"
    /\ returned = Some(EMPTY_PROMPT_MSG)
    /\ Len(request[1].messages) = 3
    /\ request[1].messages[3].role = "User"
    /\ HasToolUse({"Assistant"})
    /\ copilot_request = None
    /\ dispatched = None

====
